---- MODULE Spec2Model ----
(***************************************************************************)
(* Model of examples/timer_input_capture/timer_input_capture.cpp           *)
(* (stm32plus): the foreground loop TimerInputCaptureTest::run and the     *)
(* capture interrupt callback TimerInputCaptureTest::onInterrupt, which    *)
(* share _captures, _captureIndex, _capturedFrequency and                  *)
(* _capturingNextFrequency without locks.                                  *)
(*                                                                         *)
(* The interrupt preempts the foreground between two of its statements and *)
(* runs to completion, so one capture event (latch, dispatch to every      *)
(* subscriber, return) is one action and each foreground statement is one  *)
(* action.  The library parts the example calls but that are not part of   *)
(* the example file (the event sender, calculateFrequency, modp_uitoa10)   *)
(* follow the design document.                                             *)
(***************************************************************************)
EXTENDS Integers, Sequences, FiniteSets, TLC

VARIABLES
  pc,                      \* the statement of run() the foreground is at
  build,                   \* which branch of the #if at line 121 was compiled
  source,                  \* what drives PB0: Timer4's PWM or another signal
  edgesLeft,               \* rising edges the signal still produces
  subscribers,             \* TimerInterruptEventSender's list, in order
  interruptsEnabled,       \* TIM_IT_CC3 enabled (line 170)
  outputEnabled,           \* Timer4 running (line 176)
  inputEnabled,            \* Timer3 running (line 177)
  ccr,                     \* Timer3's capture register: the tick latched last
  captures,                \* _captures[2]
  captureIndex,            \* _captureIndex
  capturedFrequency,       \* _capturedFrequency
  capturingNextFrequency,  \* _capturingNextFrequency
  oob,                     \* a store outside _captures[0..1] has happened
  buf,                     \* char buf[15] of the loop, as decimal digits
  usart,                   \* the last frame written to the output stream
  lastEvent,               \* history: the last event the sender dispatched
  inFlight,                \* history: publishes minus frames written
  irq                      \* the statement of onInterrupt being served, if any

vars == <<pc, build, source, edgesLeft, subscribers, interruptsEnabled,
          outputEnabled, inputEnabled, ccr, captures, captureIndex,
          capturedFrequency, capturingNextFrequency, oob, buf, usart,
          lastEvent, inFlight, irq>>

(***************************************************************************)
(* Program constants                                                       *)
(***************************************************************************)
\* uint16_t _captures[2]: the counter and its captures are 16 bits wide
CounterModulus == 65536
\* uint8_t _captureIndex
IndexModulus == 256
\* setTimeBaseByFrequency(24000000,240-1)
DefaultTickRate == 24000000
DefaultPeriod == 240
\* setTimeBaseByFrequency(800000,80-1), STM32PLUS_F1_MD_VL
ValueLineTickRate == 800000
ValueLinePeriod == 80
\* the value calculateFrequency reports for an elapsed count of zero; no
\* quotient of these tick rates by a 16-bit elapsed count is zero
InvalidMeasurement == 0

Builds == {"DEFAULT", "F1_MD_VL"}

TickRate(b) == IF b = "F1_MD_VL" THEN ValueLineTickRate ELSE DefaultTickRate

SourcePeriod(b) == IF b = "F1_MD_VL" THEN ValueLinePeriod ELSE DefaultPeriod

(***************************************************************************)
(* Bounds of the model                                                     *)
(***************************************************************************)
\* the longest finite burst of edges a signal produces before it goes silent
MaxEdges == 5
\* observers already on the event sender's list in the dispatcher harness
MaxOtherSubscribers == 2

\* edgesLeft of a signal that never stops
Forever == 0 - 1

\* What the uninitialised members may hold when run() starts
UninitTicks == {0, 43690}
UninitFrequencies == {0, 305419896}
UninitIndexes == {0, 1, 2}

\* Tick distances between successive edges of a signal other than Timer4's
ExternalGaps == {80, 240, 65296, 65536}

\* Ticks from enabling Timer3 to the first edge of Timer4's PWM: Timer4 is
\* enabled one statement earlier, so a little less than one period
FirstEdgeOffsets(b) == {SourcePeriod(b) - 1}

EVENT_COMPARE3 == "EVENT_COMPARE3"
OtherEventTypes == {"EVENT_UPDATE"}

OnInterruptSlot == "onInterrupt"
OtherObservers == {"observerA", "observerB"}

NoFrame == [digits |-> <<>>, suffix |-> ""]
\* lastEvent before any event: kind of the event, ticks since the previous edge,
\* number of capture events so far modulo 2, the subscribers called in order,
\* _capturingNextFrequency when the event arrived, whether it published, the
\* frequency of the last pair completed while the loop was waiting,
\* _capturingNextFrequency when the first sample of the current pair arrived
NoEvent == [kind |-> "none", gap |-> 0, parity |-> 0, log |-> <<>>,
            armedBefore |-> FALSE, published |-> FALSE, result |-> 0 - 1,
            firstArmed |-> FALSE]

(***************************************************************************)
(* Library parts used by the example                                       *)
(***************************************************************************)
\* Ticks from capture a to capture b on the free-running 16-bit counter
Elapsed(a, b) == (b - a) % CounterModulus

\* mutant: an elapsed count of zero is taken for one tick
calculateFrequencyUnguarded(rate, capture1, capture2) ==
  LET elapsed == Elapsed(capture1, capture2)
  IN  rate \div (IF elapsed = 0 THEN 1 ELSE elapsed)

\* _myInputTimer->calculateFrequency(capture1, capture2) at tick rate `rate`
calculateFrequency(rate, capture1, capture2) ==
  LET elapsed == Elapsed(capture1, capture2)
  IN  IF elapsed = 0 THEN InvalidMeasurement
      ELSE rate \div elapsed

\* StringUtil::modp_uitoa10: the decimal digits of an unsigned value
RECURSIVE modp_uitoa10(_)
modp_uitoa10(n) ==
  IF n < 10 THEN <<n>> ELSE Append(modp_uitoa10(n \div 10), n % 10)

\* outputStream << buf << "Hz\r\n"
Frame(digits) == [digits |-> digits, suffix |-> "Hz\r\n"]

(***************************************************************************)
(* TimerInputCaptureTest::onInterrupt, on the record of the members it     *)
(* reads and writes                                                        *)
(***************************************************************************)
Members ==
  [captures |-> captures, captureIndex |-> captureIndex,
   capturedFrequency |-> capturedFrequency,
   capturingNextFrequency |-> capturingNextFrequency,
   oob |-> oob, inFlight |-> inFlight, log |-> <<>>]

\* mutant: every event kind is taken for a capture
IsAnyEvent(tet) == TRUE

\* if(tet==TimerEventType::EVENT_COMPARE3)
IsCaptureEvent(tet) == tet = EVENT_COMPARE3

\* mutant: every capture is stored in the first slot
StoreCaptureAlwaysFirst(st, tick) == [st EXCEPT !.captures[0] = tick]

\* mutant: the sample goes to the other slot, the newer one ends in slot 0
StoreCaptureOtherSlot(st, tick) ==
  IF st.captureIndex \in {0, 1}
  THEN [st EXCEPT !.captures[1 - st.captureIndex] = tick]
  ELSE [st EXCEPT !.oob = TRUE]

\* _captures[_captureIndex]=_myInputTimer->getCapture();
StoreCapture(st, tick) ==
  IF st.captureIndex \in {0, 1}
  THEN [st EXCEPT !.captures[st.captureIndex] = tick]
  ELSE [st EXCEPT !.oob = TRUE]

\* _captureIndex++ (the value left in the member)
PostIncrement(idx) == (idx + 1) % IndexModulus

\* mutant: the pair is taken to be complete on the first sample
PairCompleteOnFirst(idx) == idx = 0

\* if(_captureIndex++==1): the value compared is the one before the increment
PairComplete(idx) == idx = 1

\* mutant: the handler publishes whether or not the loop is waiting
MainLoopAlwaysReady(st) == TRUE

\* mutant: the handler never finds the loop waiting
MainLoopNeverReady(st) == FALSE

\* if(_capturingNextFrequency)
MainLoopReady(st) == st.capturingNextFrequency

\* mutant: the two captures are passed in the other order
PairFrequencySwapped(st, rate) ==
  calculateFrequency(rate, st.captures[1], st.captures[0])

\* calculateFrequency(_captures[0],_captures[1])
PairFrequency(st, rate) ==
  calculateFrequency(rate, st.captures[0], st.captures[1])

\* _capturedFrequency=...; _capturingNextFrequency=false;
Publish(st, rate) ==
  [st EXCEPT !.capturedFrequency = PairFrequency(st, rate),
             !.capturingNextFrequency = FALSE,
             !.inFlight = @ + 1]

\* mutant: the index is left where the increment put it
BackToZeroForgotten(st) == st

\* mutant: the index is set back to the second slot
BackToOne(st) == [st EXCEPT !.captureIndex = 1]

\* _captureIndex=0;
BackToZero(st) == [st EXCEPT !.captureIndex = 0]

onInterrupt(st, tet, tick, rate) ==
  IF IsCaptureEvent(tet)
  THEN LET stored == StoreCapture(st, tick)
           old    == stored.captureIndex
           bumped == [stored EXCEPT !.captureIndex = PostIncrement(old)]
       IN  IF PairComplete(old)
           THEN BackToZero(IF MainLoopReady(bumped)
                           THEN Publish(bumped, rate)
                           ELSE bumped)
           ELSE bumped
  ELSE st

(***************************************************************************)
(* TimerInterruptEventSender: the ordered list of subscribers and the      *)
(* synchronous delivery of one event to each of them                       *)
(***************************************************************************)
\* insertSubscriber(slot)
insertSubscriber(subs, slot) == Append(subs, slot)

\* one subscriber's slot is called with the event
Invoke(slot, st, tet, tick, rate) ==
  LET after == IF slot = OnInterruptSlot
               THEN onInterrupt(st, tet, tick, rate)
               ELSE st
  IN  [after EXCEPT !.log = Append(@, slot)]

\* mutant: the list is visited from its end
DeliveryOrderReversed(subs) == [i \in 1..Len(subs) |-> Len(subs) + 1 - i]

\* the order in which an event visits the list
DeliveryOrder(subs) == [i \in 1..Len(subs) |-> i]

RECURSIVE Deliver(_, _, _, _, _, _)
Deliver(subs, order, st, tet, tick, rate) ==
  IF order = <<>> THEN st
  ELSE Deliver(subs, Tail(order),
               Invoke(subs[Head(order)], st, tet, tick, rate), tet, tick, rate)

raiseEvent(subs, st, tet, tick, rate) ==
  Deliver(subs, DeliveryOrder(subs), st, tet, tick, rate)

(***************************************************************************)
(* Initial states: the object is on main's stack, its members hold         *)
(* whatever was there; Timer3's counter starts from zero                   *)
(***************************************************************************)
Uninitialised ==
  /\ captures \in {[i \in 0..1 |-> t] : t \in UninitTicks}
  /\ captureIndex \in UninitIndexes
  /\ capturedFrequency \in UninitFrequencies
  /\ capturingNextFrequency \in BOOLEAN

Constructed ==
  /\ pc = "insertSubscriber"
  /\ build \in Builds
  /\ interruptsEnabled = FALSE
  /\ outputEnabled = FALSE
  /\ inputEnabled = FALSE
  /\ ccr = 0
  /\ oob = FALSE
  /\ buf = <<>>
  /\ usart = NoFrame
  /\ lastEvent = NoEvent
  /\ inFlight = 0
  /\ irq = "idle"
  /\ Uninitialised

Init ==
  /\ Constructed
  /\ subscribers = <<>>
  /\ source \in {"timer4", "external"}
  /\ edgesLeft \in 0..MaxEdges

(***************************************************************************)
(* TimerInputCaptureTest::run, one action per statement                    *)
(***************************************************************************)
Goto(from, to) == pc = from /\ pc' = to

\* _myInputTimer->TimerInterruptEventSender.insertSubscriber(...)
InsertSubscriber ==
  /\ Goto("insertSubscriber", "initCapture")
  /\ subscribers' = insertSubscriber(subscribers, OnInterruptSlot)
  /\ UNCHANGED <<irq, build, source, edgesLeft, interruptsEnabled, outputEnabled,
                 inputEnabled, ccr, captures, captureIndex, capturedFrequency,
                 capturingNextFrequency, oob, buf, usart, lastEvent, inFlight>>

\* _myInputTimer->initCapture(...)
InitCapture ==
  /\ Goto("initCapture", "resetIndex")
  /\ UNCHANGED <<irq, build, source, edgesLeft, subscribers, interruptsEnabled,
                 outputEnabled, inputEnabled, ccr, captures, captureIndex,
                 capturedFrequency, capturingNextFrequency, oob, buf, usart,
                 lastEvent, inFlight>>

\* mutant: the index is not reset before the interrupts are enabled
ResetIndexSkipped ==
  /\ Goto("resetIndex", "arm")
  /\ UNCHANGED <<irq, build, source, edgesLeft, subscribers, interruptsEnabled,
                 outputEnabled, inputEnabled, ccr, captures, captureIndex,
                 capturedFrequency, capturingNextFrequency, oob, buf, usart,
                 lastEvent, inFlight>>

\* _captureIndex=0;
ResetIndex ==
  /\ Goto("resetIndex", "arm")
  /\ captureIndex' = 0
  /\ UNCHANGED <<irq, build, source, edgesLeft, subscribers, interruptsEnabled,
                 outputEnabled, inputEnabled, ccr, captures, capturedFrequency,
                 capturingNextFrequency, oob, buf, usart, lastEvent, inFlight>>

\* _capturingNextFrequency=true; (before the loop)
Arm ==
  /\ Goto("arm", "enableInterrupts")
  /\ capturingNextFrequency' = TRUE
  /\ UNCHANGED <<irq, build, source, edgesLeft, subscribers, interruptsEnabled,
                 outputEnabled, inputEnabled, ccr, captures, captureIndex,
                 capturedFrequency, oob, buf, usart, lastEvent, inFlight>>

\* _myInputTimer->enableInterrupts(TIM_IT_CC3);
EnableInterrupts ==
  /\ Goto("enableInterrupts", "enableOutput")
  /\ interruptsEnabled' = TRUE
  /\ UNCHANGED <<irq, build, source, edgesLeft, subscribers, outputEnabled,
                 inputEnabled, ccr, captures, captureIndex, capturedFrequency,
                 capturingNextFrequency, oob, buf, usart, lastEvent, inFlight>>

\* outputTimer.enablePeripheral();
EnableOutput ==
  /\ Goto("enableOutput", "enableInput")
  /\ outputEnabled' = TRUE
  /\ UNCHANGED <<irq, build, source, edgesLeft, subscribers, interruptsEnabled,
                 inputEnabled, ccr, captures, captureIndex, capturedFrequency,
                 capturingNextFrequency, oob, buf, usart, lastEvent, inFlight>>

\* _myInputTimer->enablePeripheral();
EnableInput ==
  /\ Goto("enableInput", "wait")
  /\ inputEnabled' = TRUE
  /\ UNCHANGED <<irq, build, source, edgesLeft, subscribers, interruptsEnabled,
                 outputEnabled, ccr, captures, captureIndex, capturedFrequency,
                 capturingNextFrequency, oob, buf, usart, lastEvent, inFlight>>

\* mutant: the loop does not wait for the flag
PollAlwaysExits(flag) == TRUE

\* while(_capturingNextFrequency);  one poll; the loop is left when it reads false
PollExits(flag) == ~flag

Wait ==
  /\ PollExits(capturingNextFrequency)
  /\ Goto("wait", "format")
  /\ UNCHANGED <<irq, build, source, edgesLeft, subscribers, interruptsEnabled,
                 outputEnabled, inputEnabled, ccr, captures, captureIndex,
                 capturedFrequency, capturingNextFrequency, oob, buf, usart,
                 lastEvent, inFlight>>

\* StringUtil::modp_uitoa10(_capturedFrequency,buf);
Format ==
  /\ Goto("format", "write")
  /\ buf' = modp_uitoa10(capturedFrequency)
  /\ UNCHANGED <<irq, build, source, edgesLeft, subscribers, interruptsEnabled,
                 outputEnabled, inputEnabled, ccr, captures, captureIndex,
                 capturedFrequency, capturingNextFrequency, oob, usart,
                 lastEvent, inFlight>>

\* outputStream << buf << "Hz\r\n";
Write ==
  /\ Goto("write", "delay")
  /\ usart' = Frame(buf)
  /\ inFlight' = inFlight - 1
  /\ UNCHANGED <<irq, build, source, edgesLeft, subscribers, interruptsEnabled,
                 outputEnabled, inputEnabled, ccr, captures, captureIndex,
                 capturedFrequency, capturingNextFrequency, oob, buf,
                 lastEvent>>

\* MillisecondTimer::delay(3000);
Delay ==
  /\ Goto("delay", "rearm")
  /\ UNCHANGED <<irq, build, source, edgesLeft, subscribers, interruptsEnabled,
                 outputEnabled, inputEnabled, ccr, captures, captureIndex,
                 capturedFrequency, capturingNextFrequency, oob, buf, usart,
                 lastEvent, inFlight>>

\* _capturingNextFrequency=true; (the loop's last statement)
Rearm ==
  /\ Goto("rearm", "wait")
  /\ capturingNextFrequency' = TRUE
  /\ UNCHANGED <<irq, build, source, edgesLeft, subscribers, interruptsEnabled,
                 outputEnabled, inputEnabled, ccr, captures, captureIndex,
                 capturedFrequency, oob, buf, usart, lastEvent, inFlight>>

Foreground ==
  \/ InsertSubscriber \/ InitCapture \/ ResetIndex \/ Arm
  \/ EnableInterrupts \/ EnableOutput \/ EnableInput
  \/ Wait \/ Format \/ Write \/ Delay \/ Rearm

(***************************************************************************)
(* The capture context: a rising edge on PB0 latches the counter, the      *)
(* interrupt is taken and the event sender calls every subscriber          *)
(***************************************************************************)
\* The capture channel latches and interrupts once all of it is enabled
CaptureRunning ==
  /\ interruptsEnabled
  /\ inputEnabled
  /\ source = "timer4" => outputEnabled

\* Ticks since the previous edge (since the counter started, for the first)
Gaps ==
  IF source = "timer4"
  THEN IF lastEvent.kind = "none" THEN FirstEdgeOffsets(build)
       ELSE {SourcePeriod(build)}
  ELSE ExternalGaps

Dispatched(tet, tick, gap) ==
  LET st == raiseEvent(subscribers, Members, tet, tick, TickRate(build))
  IN  /\ captures' = st.captures
      /\ captureIndex' = st.captureIndex
      /\ capturedFrequency' = st.capturedFrequency
      /\ capturingNextFrequency' = st.capturingNextFrequency
      /\ oob' = st.oob
      /\ inFlight' = st.inFlight
      /\ lastEvent' = [kind |-> tet, gap |-> gap,
                       parity |-> IF tet = EVENT_COMPARE3
                                  THEN 1 - lastEvent.parity
                                  ELSE lastEvent.parity,
                       log |-> st.log,
                       armedBefore |-> capturingNextFrequency,
                       published |-> st.inFlight # inFlight,
                       result |-> IF st.inFlight # inFlight
                                  THEN st.capturedFrequency
                                  ELSE lastEvent.result,
                       firstArmed |-> IF tet = EVENT_COMPARE3
                                         /\ lastEvent.parity = 0
                                      THEN capturingNextFrequency
                                      ELSE lastEvent.firstArmed]

CaptureEdge ==
  /\ CaptureRunning
  /\ edgesLeft # 0
  /\ edgesLeft' = IF edgesLeft = Forever THEN Forever ELSE edgesLeft - 1
  /\ \E gap \in Gaps :
       /\ ccr' = (ccr + gap) % CounterModulus
       /\ Dispatched(EVENT_COMPARE3, ccr', gap)
  /\ UNCHANGED <<irq, pc, build, source, subscribers, interruptsEnabled,
                 outputEnabled, inputEnabled, buf, usart>>

Next == Foreground \/ CaptureEdge

Spec == Init /\ [][Next]_vars

(***************************************************************************)
(* The demo as wired (PB6 to PB0): Timer4's PWM never stops                *)
(***************************************************************************)
RefInit ==
  /\ Constructed
  /\ subscribers = <<>>
  /\ source = "timer4"
  /\ edgesLeft = Forever

RefSpec == RefInit /\ [][Next]_vars

\* The processor keeps executing the foreground whenever no interrupt is being
\* served, and the PWM keeps producing edges
LiveSpec == RefInit /\ [][Next]_vars /\ WF_vars(Foreground) /\ WF_vars(CaptureEdge)

(***************************************************************************)
(* The event sender with other observers already on its list               *)
(***************************************************************************)
RECURSIVE ObserverLists(_)
ObserverLists(n) ==
  IF n = 0 THEN {<<>>}
  ELSE ObserverLists(n - 1) \cup
       {Append(l, o) : l \in ObserverLists(n - 1), o \in OtherObservers}

DispatchInit ==
  /\ Constructed
  /\ subscribers \in ObserverLists(MaxOtherSubscribers)
  /\ source = "timer4"
  /\ edgesLeft = MaxEdges

DispatchSpec == DispatchInit /\ [][Next]_vars

(***************************************************************************)
(* The handler called with events of other kinds: onInterrupt takes any    *)
(* TimerEventType, and the sender calls it for whatever Timer3 raises      *)
(***************************************************************************)
\* Timer3 raises an event that is not the channel 3 capture; CCR3 is not
\* latched
OtherEvent ==
  /\ inputEnabled
  /\ \E tet \in OtherEventTypes : Dispatched(tet, ccr, 0)
  /\ UNCHANGED <<irq, pc, build, source, edgesLeft, subscribers, interruptsEnabled,
                 outputEnabled, inputEnabled, ccr, buf, usart>>

FilterInit ==
  /\ Constructed
  /\ subscribers = <<>>
  /\ source = "external"
  /\ edgesLeft \in 0..MaxEdges

FilterNext == Foreground \/ CaptureEdge \/ OtherEvent

FilterSpec == FilterInit /\ [][FilterNext]_vars

(***************************************************************************)
(* onInterrupt statement by statement, for a processor on which the        *)
(* foreground keeps running while the handler is served.  irq is the       *)
(* statement the handler executes next; one event is served at a time.     *)
(***************************************************************************)
\* mutant: the flag is cleared before the frequency is stored
PublishOrderSwapped == <<"clearFlag", "storeFrequency">>

\* lines 230 and 231, in the order of the source
PublishOrder == <<"storeFrequency", "clearFlag">>

\* the statement that follows one of the two publishing statements
AfterPublishing(stmt) ==
  IF stmt = PublishOrder[1] THEN PublishOrder[2] ELSE "reset"

\* the edge latches CCR3, the sender calls the handler: if(tet==EVENT_COMPARE3)
HandlerEntry ==
  /\ CaptureRunning
  /\ edgesLeft # 0
  /\ irq = "idle"
  /\ \E i \in 1..Len(subscribers) : subscribers[i] = OnInterruptSlot
  /\ edgesLeft' = IF edgesLeft = Forever THEN Forever ELSE edgesLeft - 1
  /\ \E gap \in Gaps :
       /\ ccr' = (ccr + gap) % CounterModulus
       /\ lastEvent' = [lastEvent EXCEPT !.kind = EVENT_COMPARE3,
                                         !.gap = gap,
                                         !.parity = 1 - @,
                                         !.log = subscribers,
                                         !.armedBefore = capturingNextFrequency,
                                         !.published = FALSE,
                                         !.firstArmed =
                                            IF lastEvent.parity = 0
                                            THEN capturingNextFrequency
                                            ELSE @]
  /\ irq' = IF IsCaptureEvent(EVENT_COMPARE3) THEN "store" ELSE "idle"
  /\ UNCHANGED <<pc, build, source, subscribers, interruptsEnabled,
                 outputEnabled, inputEnabled, captures, captureIndex,
                 capturedFrequency, capturingNextFrequency, oob, buf, usart,
                 inFlight>>

\* _captures[_captureIndex]=_myInputTimer->getCapture();
HandlerStore ==
  /\ irq = "store"
  /\ LET st == StoreCapture(Members, ccr)
     IN  captures' = st.captures /\ oob' = st.oob
  /\ irq' = "test"
  /\ UNCHANGED <<pc, build, source, edgesLeft, subscribers, interruptsEnabled,
                 outputEnabled, inputEnabled, ccr, captureIndex,
                 capturedFrequency, capturingNextFrequency, buf, usart,
                 lastEvent, inFlight>>

\* if(_captureIndex++==1)
HandlerTest ==
  /\ irq = "test"
  /\ captureIndex' = PostIncrement(captureIndex)
  /\ irq' = IF PairComplete(captureIndex) THEN "checkReady" ELSE "idle"
  /\ UNCHANGED <<pc, build, source, edgesLeft, subscribers, interruptsEnabled,
                 outputEnabled, inputEnabled, ccr, captures, capturedFrequency,
                 capturingNextFrequency, oob, buf, usart, lastEvent, inFlight>>

\* if(_capturingNextFrequency)
HandlerCheckReady ==
  /\ irq = "checkReady"
  /\ IF MainLoopReady(Members)
     THEN /\ irq' = PublishOrder[1]
          /\ lastEvent' = [lastEvent EXCEPT
                             !.result = PairFrequency(Members, TickRate(build))]
     ELSE /\ irq' = "reset"
          /\ lastEvent' = lastEvent
  /\ UNCHANGED <<pc, build, source, edgesLeft, subscribers, interruptsEnabled,
                 outputEnabled, inputEnabled, ccr, captures, captureIndex,
                 capturedFrequency, capturingNextFrequency, oob, buf, usart,
                 inFlight>>

\* _capturedFrequency=_myInputTimer->calculateFrequency(_captures[0],_captures[1]);
HandlerStoreFrequency ==
  /\ irq = "storeFrequency"
  /\ capturedFrequency' = PairFrequency(Members, TickRate(build))
  /\ irq' = AfterPublishing("storeFrequency")
  /\ UNCHANGED <<pc, build, source, edgesLeft, subscribers, interruptsEnabled,
                 outputEnabled, inputEnabled, ccr, captures, captureIndex,
                 capturingNextFrequency, oob, buf, usart, lastEvent, inFlight>>

\* _capturingNextFrequency=false;
HandlerClearFlag ==
  /\ irq = "clearFlag"
  /\ capturingNextFrequency' = FALSE
  /\ inFlight' = inFlight + 1
  /\ lastEvent' = [lastEvent EXCEPT !.published = TRUE]
  /\ irq' = AfterPublishing("clearFlag")
  /\ UNCHANGED <<pc, build, source, edgesLeft, subscribers, interruptsEnabled,
                 outputEnabled, inputEnabled, ccr, captures, captureIndex,
                 capturedFrequency, oob, buf, usart>>

\* _captureIndex=0;
HandlerReset ==
  /\ irq = "reset"
  /\ captureIndex' = BackToZero(Members).captureIndex
  /\ irq' = "idle"
  /\ UNCHANGED <<pc, build, source, edgesLeft, subscribers, interruptsEnabled,
                 outputEnabled, inputEnabled, ccr, captures, capturedFrequency,
                 capturingNextFrequency, oob, buf, usart, lastEvent, inFlight>>

Handler ==
  \/ HandlerEntry \/ HandlerStore \/ HandlerTest \/ HandlerCheckReady
  \/ HandlerStoreFrequency \/ HandlerClearFlag \/ HandlerReset

SplitNext == Foreground \/ Handler

SplitSpec == Init /\ [][SplitNext]_vars

(***************************************************************************)
(* Shorthands for the properties                                           *)
(***************************************************************************)
\* this step is the handling of one capture event
CaptureStep == lastEvent'.parity # lastEvent.parity

\* this step stores the second sample of a pair
CompletesPair == CaptureStep /\ captureIndex = 1

\* this step writes _capturedFrequency and clears _capturingNextFrequency
PublishStep == inFlight' = inFlight + 1

\* this step is a statement of run()
ForegroundStep == pc' # pc

(***************************************************************************)
(* C1  Arm/disarm gating.  The handler writes _capturedFrequency and       *)
(* clears _capturingNextFrequency only on a capture event that stores the  *)
(* second sample of a pair while _capturingNextFrequency is true, and then *)
(* exactly once; a pair completed while it is false changes neither member *)
(* and publishes nothing.                                                  *)
(***************************************************************************)
C1_Gating ==
  [][ /\ ( \/ PublishStep
           \/ capturedFrequency' # capturedFrequency
           \/ (capturingNextFrequency /\ ~capturingNextFrequency') )
         => (CompletesPair /\ capturingNextFrequency)
      /\ (CompletesPair /\ capturingNextFrequency)
         => (PublishStep /\ ~capturingNextFrequency')
      /\ (CompletesPair /\ ~capturingNextFrequency)
         => UNCHANGED <<capturedFrequency, capturingNextFrequency, inFlight>>
    ]_vars

\* a pair was completed while disarmed, the loop has re-armed since and is
\* still waiting: the dropped pair was not kept for it
C1_Witness ==
  /\ lastEvent.kind = EVENT_COMPARE3
  /\ lastEvent.parity = 0
  /\ ~lastEvent.armedBefore
  /\ ~lastEvent.published
  /\ pc = "wait"
  /\ capturingNextFrequency
  /\ inFlight = 0
  /\ usart # NoFrame

(***************************************************************************)
(* C2  Wraparound correctness.  When a pair is published and its two edges *)
(* are fewer than 2^16 ticks apart, the elapsed count taken from the two   *)
(* stored 16-bit captures, (captures[1] - captures[0]) mod 2^16, is the    *)
(* true tick distance between the edges, whether or not the counter        *)
(* wrapped between them, and the published frequency is the tick rate      *)
(* divided by that distance.                                               *)
(***************************************************************************)
C2_Wraparound ==
  (lastEvent.published /\ lastEvent.gap < CounterModulus)
  => /\ captures[0] \in 0..(CounterModulus - 1)
     /\ captures[1] \in 0..(CounterModulus - 1)
     /\ Elapsed(captures[0], captures[1]) = lastEvent.gap
     /\ capturedFrequency = TickRate(build) \div lastEvent.gap

\* a published pair whose second capture is below its first: the counter
\* wrapped between the two edges
C2_Witness ==
  /\ lastEvent.published
  /\ lastEvent.gap < CounterModulus
  /\ captures[1] < captures[0]
  /\ capturedFrequency = TickRate(build) \div lastEvent.gap

(***************************************************************************)
(* C3  Divide-by-zero guard.  When an armed pair completes with both       *)
(* captures equal, the value published is the invalid-measurement value;   *)
(* evaluating the handler never divides by zero.                           *)
(***************************************************************************)
C3_ZeroElapsed ==
  (lastEvent.kind = EVENT_COMPARE3 /\ lastEvent.parity = 0
     /\ lastEvent.armedBefore /\ captures[1] = captures[0])
  => (lastEvent.published /\ capturedFrequency = InvalidMeasurement)

\* an armed pair of two edges a whole counter period apart has been published
C3_Witness ==
  /\ lastEvent.published
  /\ lastEvent.armedBefore
  /\ lastEvent.gap = CounterModulus
  /\ captures[1] = captures[0]
  /\ capturedFrequency = InvalidMeasurement

(***************************************************************************)
(* C4  Frequency round-trip.  For every frequency F that divides the tick  *)
(* rate R with R/F below 2^16, a published pair whose edges are R/F ticks  *)
(* apart publishes F.                                                      *)
(***************************************************************************)
TargetFrequencies(rate) ==
  {rate \div e : e \in {g \in ExternalGaps \cup {DefaultPeriod, ValueLinePeriod} :
                          g < CounterModulus /\ rate % g = 0}}

C4_RoundTrip ==
  \A F \in TargetFrequencies(TickRate(build)) :
    (lastEvent.published /\ lastEvent.gap = TickRate(build) \div F)
    => capturedFrequency = F

\* 800000/80 = 10000 has been published by the value line build
C4_Witness ==
  /\ lastEvent.published
  /\ build = "F1_MD_VL"
  /\ lastEvent.gap = 80
  /\ 10000 \in TargetFrequencies(TickRate(build))
  /\ capturedFrequency = 10000

(***************************************************************************)
(* C5  End-to-end scenario.  Fed by Timer4's PWM (edges 240 ticks apart at *)
(* 24,000,000 ticks per second, or 80 apart at 800,000) every frame the    *)
(* loop writes reads 100000, respectively 10000, also for pairs whose      *)
(* edges straddle a wrap of the counter.                                   *)
(***************************************************************************)
C5_EndToEnd ==
  usart # NoFrame
  => usart = [digits |-> IF build = "F1_MD_VL" THEN <<1, 0, 0, 0, 0>>
                         ELSE <<1, 0, 0, 0, 0, 0>>,
              suffix |-> "Hz\r\n"]

\* the frame just written is that of a pair whose edges straddle a wrap
C5_Witness ==
  /\ pc = "delay"
  /\ lastEvent.published
  /\ captures[1] < captures[0]
  /\ usart.digits = <<1, 0, 0, 0, 0, 0>>

(***************************************************************************)
(* C6  Hang-on-silence.  While the loop is armed and in its wait, a step   *)
(* that is not a capture event leaves it armed and waiting, writes neither *)
(* _capturedFrequency nor a frame; and a frame is only ever written when a *)
(* publish of the current arm cycle is waiting to be consumed.             *)
(***************************************************************************)
C6_HangOnSilence ==
  [][ /\ (pc = "wait" /\ capturingNextFrequency /\ ~CaptureStep)
         => /\ pc' = "wait"
            /\ capturingNextFrequency'
            /\ UNCHANGED <<capturedFrequency, usart, inFlight>>
      /\ (usart' # usart \/ inFlight' < inFlight)
         => (pc = "write" /\ ~capturingNextFrequency /\ inFlight = 1)
    ]_vars

\* armed and waiting with the signal gone silent before the first frame
C6_Witness ==
  /\ pc = "wait"
  /\ capturingNextFrequency
  /\ CaptureRunning
  /\ edgesLeft = 0
  /\ usart = NoFrame
  /\ inFlight = 0

(***************************************************************************)
(* C7  Progress under a live signal.  With edges that keep arriving and a  *)
(* foreground that keeps running, the flag is cleared again and again and  *)
(* set again and again (every arming is followed by a clear and every      *)
(* clear by the next arming, without end), and each arming by the loop     *)
(* comes after the frame of the value just published has been written.     *)
(***************************************************************************)
C7_Progress ==
  /\ []<>capturingNextFrequency
  /\ []<>~capturingNextFrequency
  /\ [][ (pc = "rearm" /\ ForegroundStep)
         => /\ ~capturingNextFrequency
            /\ capturingNextFrequency'
            /\ pc' = "wait"
            /\ inFlight = 0
            /\ usart = Frame(modp_uitoa10(capturedFrequency)) ]_vars

\* re-armed and waiting after a frame has been written
C7_Witness ==
  /\ pc = "wait"
  /\ capturingNextFrequency
  /\ usart # NoFrame
  /\ edgesLeft = Forever

(***************************************************************************)
(* C8  The consumed value is the published value.  The loop reads          *)
(* _capturedFrequency only after it has seen the flag false and after a    *)
(* publish; what it formats and writes is the value then in                *)
(* _capturedFrequency; and while the flag is false no step writes          *)
(* _capturedFrequency or publishes, so that value is the one of the        *)
(* publish that cleared the flag.                                          *)
(***************************************************************************)
C8_ConsumedIsPublished ==
  /\ [](pc \in {"format", "write"} => (~capturingNextFrequency /\ inFlight = 1))
  /\ [](pc = "write" => buf = modp_uitoa10(capturedFrequency))
  /\ [](pc = "delay" => usart = Frame(modp_uitoa10(capturedFrequency)))
  /\ [][ /\ ~capturingNextFrequency
            => (capturedFrequency' = capturedFrequency /\ ~PublishStep)
         /\ PublishStep => (capturingNextFrequency /\ ~capturingNextFrequency')
       ]_vars

\* the loop is about to write a value while a later pair, completed after
\* the publish, has been dropped
C8_Witness ==
  /\ pc = "write"
  /\ buf = modp_uitoa10(capturedFrequency)
  /\ lastEvent.kind = EVENT_COMPARE3
  /\ lastEvent.parity = 0
  /\ ~lastEvent.published
  /\ ~lastEvent.armedBefore
  /\ lastEvent.gap # 240

(***************************************************************************)
(* C9  Single writer per direction.  Every change of the flag from false   *)
(* to true is made by a statement of run(), every change from true to      *)
(* false by the handler; after the initial assignment the loop sets the    *)
(* flag only when it is false and the published value has been written     *)
(* out.                                                                    *)
(***************************************************************************)
C9_SingleWriter ==
  [][ /\ (~capturingNextFrequency /\ capturingNextFrequency')
         => (ForegroundStep /\ ~CaptureStep /\ pc \in {"arm", "rearm"})
      /\ (capturingNextFrequency /\ ~capturingNextFrequency')
         => (CaptureStep /\ ~ForegroundStep)
      /\ ForegroundStep => (capturingNextFrequency => capturingNextFrequency')
      /\ CaptureStep => (capturingNextFrequency' => capturingNextFrequency)
      /\ (pc = "rearm" /\ ForegroundStep)
         => (~capturingNextFrequency /\ inFlight = 0 /\ capturingNextFrequency')
    ]_vars

\* the loop has re-armed after writing a frame, and a capture event has
\* since cleared the flag again
C9_Witness ==
  /\ pc = "wait"
  /\ ~capturingNextFrequency
  /\ lastEvent.published
  /\ usart # NoFrame
  /\ inFlight = 1

(***************************************************************************)
(* C10  Dispatcher ordering.  Every event is delivered to each of the N    *)
(* subscribers on the list exactly once, in the order of registration,     *)
(* within the one step of the capture context: the foreground does not     *)
(* move during it and one event is dispatched at a time.                   *)
(***************************************************************************)
C10_DispatchOrder ==
  [][ (lastEvent' # lastEvent)
      => /\ lastEvent'.log = subscribers
         /\ subscribers' = subscribers
         /\ pc' = pc
         /\ lastEvent'.parity = 1 - lastEvent.parity
         /\ captureIndex' = 1 - captureIndex
    ]_vars

\* an event has been delivered to three subscribers, two different observers
\* registered before the example's handler
C10_Witness ==
  /\ Len(subscribers) = 3
  /\ subscribers[1] # subscribers[2]
  /\ subscribers[3] = OnInterruptSlot
  /\ lastEvent.kind = EVENT_COMPARE3
  /\ lastEvent.log = subscribers

(***************************************************************************)
(* C11  Slot index invariant.  Once run() has reset it, _captureIndex is 0 *)
(* or 1 whenever the foreground can observe it and no capture is ever      *)
(* stored outside _captures[0..1]; a capture event arriving with index 0   *)
(* stores into slot 0, leaves index 1 and publishes nothing; one arriving  *)
(* with index 1 stores into slot 1 and leaves index 0 whether or not the   *)
(* flag was set.                                                           *)
(***************************************************************************)
C11_SlotIndex ==
  /\ [](pc \notin {"insertSubscriber", "initCapture", "resetIndex"}
        => (captureIndex \in {0, 1} /\ ~oob))
  /\ [][ CaptureStep
         => /\ captureIndex \in {0, 1}
            /\ ~oob'
            /\ captures' = [captures EXCEPT ![captureIndex] = ccr']
            /\ captureIndex = 0 => (captureIndex' = 1 /\ ~PublishStep)
            /\ captureIndex = 1 => captureIndex' = 0
       ]_vars

\* the index is back at 0 after a pair that was completed while disarmed
C11_Witness ==
  /\ lastEvent.kind = EVENT_COMPARE3
  /\ lastEvent.parity = 0
  /\ ~lastEvent.armedBefore
  /\ ~lastEvent.published
  /\ captureIndex = 0
  /\ captures[1] = ccr

(***************************************************************************)
(* C12  One measurement in flight.  The number of publishes exceeds the    *)
(* number of frames written by 0 or 1; a publish happens only when nothing *)
(* is pending and the flag is set, a frame is written only for a pending   *)
(* publish, and the loop arms again only when the publish of the cycle has *)
(* been written out: one publish and one frame between two armings.        *)
(***************************************************************************)
C12_OneInFlight ==
  /\ [](inFlight \in {0, 1})
  /\ [](capturingNextFrequency /\ pc \in {"wait", "enableInterrupts",
                                          "enableOutput", "enableInput"}
        => inFlight = 0)
  /\ [][ /\ PublishStep => (inFlight = 0 /\ capturingNextFrequency /\ pc = "wait")
         /\ inFlight' < inFlight => (inFlight = 1 /\ pc = "write" /\ usart' = Frame(buf))
         /\ (pc = "rearm" /\ ForegroundStep) => (inFlight = 0 /\ usart = Frame(buf))
         /\ (pc = "wait" /\ ForegroundStep) => inFlight = 1
       ]_vars

\* a publish is pending, about to be written, and two more edges have come
\* and gone without a second publish
C12_Witness ==
  /\ inFlight = 1
  /\ pc = "write"
  /\ lastEvent.kind = EVENT_COMPARE3
  /\ lastEvent.parity = 0
  /\ ~lastEvent.published

(***************************************************************************)
(* C13  Sliding window, as claimed: every capture event after the first    *)
(* completes a pair with the event just before it (slot 0 holds that       *)
(* event's tick, slot 1 this one's) and the pair is published if the flag  *)
(* is set.  The handler does not do this: see C13_PairWindow.              *)
(***************************************************************************)
C13_SlidingWindow ==
  [][ (CaptureStep /\ lastEvent.kind # "none")
      => /\ captures'[0] = ccr
         /\ captures'[1] = ccr'
         /\ capturingNextFrequency => PublishStep
    ]_vars

(***************************************************************************)
(* C13 (amended)  The window does not slide: the events are taken two by   *)
(* two.  Every even-numbered capture event completes a pair with the       *)
(* odd-numbered event just before it, and that pair is published if the    *)
(* flag is set at that moment; every odd-numbered event only starts a new  *)
(* pair in slot 0 and publishes nothing.                                   *)
(***************************************************************************)
C13_PairWindow ==
  [][ /\ (CaptureStep /\ lastEvent.parity = 1)
         => /\ captures[0] = ccr
            /\ captures' = [i \in 0..1 |-> IF i = 0 THEN ccr ELSE ccr']
            /\ capturingNextFrequency
               => /\ PublishStep
                  /\ capturedFrequency' =
                       calculateFrequency(TickRate(build), ccr, ccr')
            /\ ~capturingNextFrequency => ~PublishStep
      /\ (CaptureStep /\ lastEvent.parity = 0)
         => /\ captures'[0] = ccr'
            /\ captures'[1] = captures[1]
            /\ ~PublishStep
    ]_vars

\* the fourth event has completed and published the second pair
C13_Witness ==
  /\ lastEvent.published
  /\ lastEvent.parity = 0
  /\ usart # NoFrame
  /\ captures[1] = ccr
  /\ Elapsed(captures[0], captures[1]) = lastEvent.gap % CounterModulus

(***************************************************************************)
(* C14  Initialisation precedes capture.  When the capture interrupt or    *)
(* either timer is enabled and no event has been handled yet, the handler  *)
(* is on the sender's list, _captureIndex is 0 and the flag is set; every  *)
(* capture event is handled after that initialisation and reaches the      *)
(* handler, and the first one stores into slot 0.                          *)
(***************************************************************************)
Subscribed == \E i \in 1..Len(subscribers) : subscribers[i] = OnInterruptSlot

C14_InitFirst ==
  /\ []( ((interruptsEnabled \/ outputEnabled \/ inputEnabled)
            /\ lastEvent.kind = "none")
         => (Subscribed /\ captureIndex = 0 /\ capturingNextFrequency) )
  /\ [][ CaptureStep
         => /\ Subscribed
            /\ pc \notin {"insertSubscriber", "initCapture", "resetIndex", "arm",
                          "enableInterrupts", "enableOutput", "enableInput"}
            /\ \E i \in 1..Len(lastEvent'.log) :
                 lastEvent'.log[i] = OnInterruptSlot
            /\ lastEvent.kind = "none"
               => /\ captureIndex = 0
                  /\ capturingNextFrequency
                  /\ captures'[0] = ccr'
                  /\ captures'[1] = captures[1]
       ]_vars

\* the first event has been handled: its tick is in slot 0 and slot 1 still
\* holds what it held before run() started
C14_Witness ==
  /\ lastEvent.kind = EVENT_COMPARE3
  /\ lastEvent.parity = 1
  /\ edgesLeft = MaxEdges - 1
  /\ captureIndex = 1
  /\ captures[0] = ccr
  /\ captures[1] = 43690
  /\ capturingNextFrequency

(***************************************************************************)
(* C15  Event-kind filter.  The handling of an event whose kind is not     *)
(* EVENT_COMPARE3 reaches the handler and leaves _captures, _captureIndex, *)
(* _capturingNextFrequency and _capturedFrequency unchanged.               *)
(***************************************************************************)
OtherEventStep ==
  /\ lastEvent'.kind \in OtherEventTypes
  /\ ~ForegroundStep
  /\ ~CaptureStep

C15_KindFilter ==
  [][ OtherEventStep
      => /\ \E i \in 1..Len(lastEvent'.log) : lastEvent'.log[i] = OnInterruptSlot
         /\ UNCHANGED <<captures, captureIndex, capturingNextFrequency,
                        capturedFrequency, oob, inFlight>>
    ]_vars

\* an event of another kind arrived between the two samples of a pair, while
\* the loop was waiting
C15_Witness ==
  /\ lastEvent.kind \in OtherEventTypes
  /\ \E i \in 1..Len(lastEvent.log) : lastEvent.log[i] = OnInterruptSlot
  /\ lastEvent.parity = 1
  /\ lastEvent.armedBefore
  /\ captureIndex = 1
  /\ captures[0] = ccr
  /\ capturingNextFrequency
  /\ pc = "wait"

(***************************************************************************)
(* C16  Sentinel reporting by the loop.  Whenever the value the loop has   *)
(* read from _capturedFrequency after the flag was cleared is the          *)
(* invalid-measurement value, what the loop has written to the USART is    *)
(* not that value as a numeric frequency frame.                            *)
(***************************************************************************)
C16_SentinelReported ==
  (pc \in {"delay", "rearm"} /\ capturedFrequency = InvalidMeasurement)
    => usart # Frame(modp_uitoa10(capturedFrequency))

(***************************************************************************)
(* C17  Publish-before-disarm ordering.  With the handler's statements as  *)
(* separate steps interleaved with the foreground: once the loop has read  *)
(* _capturingNextFrequency as false in an arm cycle, and until it re-arms, *)
(* _capturedFrequency holds the frequency of the pair whose completion     *)
(* cleared the flag, and so do the digits the loop formats and writes.     *)
(***************************************************************************)
C17_PublishBeforeDisarm ==
  /\ pc \in {"format", "write", "delay", "rearm"}
     => capturedFrequency = lastEvent.result
  /\ pc \in {"write", "delay", "rearm"}
     => buf = modp_uitoa10(lastEvent.result)
  /\ (~capturingNextFrequency /\ lastEvent.published)
     => capturedFrequency = lastEvent.result

\* the loop has left the wait and is about to read the frequency while the
\* handler that cleared the flag has not returned yet
C17_Witness ==
  /\ pc = "format"
  /\ irq = "reset"
  /\ lastEvent.published
  /\ ~capturingNextFrequency
  /\ capturedFrequency = lastEvent.result
  /\ capturedFrequency \notin UninitFrequencies

(***************************************************************************)
(* C18  Published pair is two adjacent events.  No event being lost, at    *)
(* every publish _captures[0] holds the tick of the capture event just     *)
(* before the one whose tick is in _captures[1]: the previous latch of     *)
(* CCR3 and the present one, the older in slot 0, so that the distance     *)
(* between the two slots is the distance between two consecutive edges;    *)
(* this does not depend on the flag's value when slot 0 was filled.        *)
(***************************************************************************)
C18_AdjacentPair ==
  [][ PublishStep
      => /\ lastEvent.kind = EVENT_COMPARE3
         /\ captures[0] = ccr
         /\ captures'[0] = ccr
         /\ captures'[1] = ccr'
         /\ ccr' = (ccr + lastEvent'.gap) % CounterModulus
         /\ Elapsed(captures'[0], captures'[1]) = lastEvent'.gap % CounterModulus
    ]_vars

\* a pair has been published whose first sample was stored while the flag was
\* false, before the loop re-armed
C18_Witness ==
  /\ lastEvent.published
  /\ ~lastEvent.firstArmed
  /\ lastEvent.armedBefore
  /\ usart # NoFrame
  /\ captures[1] = ccr
  /\ Elapsed(captures[0], captures[1]) = lastEvent.gap % CounterModulus
  /\ capturedFrequency = calculateFrequency(TickRate(build), captures[0], captures[1])

(***************************************************************************)
(* C19  Pair completion follows event parity, not arming.  Counting the    *)
(* capture events from 1 after the enable, _captureIndex is the count      *)
(* modulo 2; an odd-numbered event never publishes; an even-numbered       *)
(* event publishes exactly when the flag is set as it arrives; hence of    *)
(* two consecutive events that both arrive with the flag set and without a *)
(* publish between them, the second publishes.                             *)
(***************************************************************************)
C19_ParityNotArming ==
  /\ [](pc \notin {"insertSubscriber", "initCapture", "resetIndex"}
        => captureIndex = lastEvent.parity)
  /\ [][ CaptureStep
         => /\ lastEvent'.parity = 1 => ~PublishStep
            /\ lastEvent'.parity = 0 => (PublishStep <=> capturingNextFrequency)
            /\ ( /\ capturingNextFrequency
                 /\ lastEvent.kind = EVENT_COMPARE3
                 /\ lastEvent.armedBefore
                 /\ ~lastEvent.published ) => PublishStep
       ]_vars

\* in a later cycle the loop re-armed between an even-numbered event and the
\* next odd-numbered one: the publish came on the second event after arming
C19_Witness ==
  /\ lastEvent.parity = 0
  /\ lastEvent.published
  /\ lastEvent.firstArmed
  /\ lastEvent.armedBefore
  /\ usart # NoFrame
  /\ captureIndex = 0
  /\ ~capturingNextFrequency

====
